---- MODULE Spec2Model ----
(***************************************************************************)
(* A model of pkierski/pop3srv: the per-connection POP3 session            *)
(* (session.go), its command parser (command.go) and the TOP truncator     *)
(* (uidl_wrapper.go), together with the transport, authorizer and mailbox  *)
(* the session talks to.                                                   *)
(*                                                                         *)
(* One step of the model is one iteration of Session.Serve: a line is read *)
(* from the transport, parsed, dispatched and handled.  What the session   *)
(* wrote on the transport during the step is kept in `out`, the back-end   *)
(* calls it made in `calls`, the command in `cmd` and the session fields   *)
(* as they were before the step in `pre`.                                  *)
(***************************************************************************)
EXTENDS Integers, Sequences, FiniteSets, TLC

\* ------------------------------------------------------------------ bounds
\* The largest number of messages the mailbox reports.
MaxMsgs == 2

\* ----------------------------------------------------------------- states
authorizationState == "AUTHORIZATION"
transactionState == "TRANSACTION"
updateState == "UPDATE"

\* --------------------------------------------------------------- commands
userCmd == "USER"
passCmd == "PASS"
statCmd == "STAT"
listCmd == "LIST"
retrCmd == "RETR"
deleCmd == "DELE"
noopCmd == "NOOP"
rsetCmd == "RSET"
quitCmd == "QUIT"
apopCmd == "APOP"
topCmd == "TOP"
uidlCmd == "UIDL"
capaCmd == "CAPA"

Verbs ==
  {userCmd, passCmd, statCmd, listCmd, retrCmd, deleCmd, noopCmd, rsetCmd,
   quitCmd, apopCmd, topCmd, uidlCmd, capaCmd}

\* A verb no dispatch table knows, and the empty line.
UnknownVerbs == {"FOOBAR", ""}

\* ----------------------------------------------------------------- errors
NoErr == ""
ErrUserNotSpecified == "user not specified"
ErrUserAlreadySpecified == "user already specified"
ErrInvalidCommand == "invalid command"
ErrMessageMarkedAsDeleted == "message marked as deleted"
\* What a failing authorizer, provider or mailbox returns.
ErrAuth == "authorization failed"
ErrProvide == "provide failed"
ErrMailbox == "mailbox failed"
ErrDele == "dele failed"
ErrClose == "close failed"
ErrNotSupportedAuthMethod == "not suported authorization method"

\* The kinds of Authorizer a session is created with: one that supports both
\* USER/PASS and APOP, DisableApop(a) and DisableUserPass(a).
Authorizer == "Authorizer"
DisableApop == "DisableApop"
DisableUserPass == "DisableUserPass"
Authorizers == {Authorizer, DisableApop, DisableUserPass}

\* -------------------------------------------------------------- arguments
\* An argument of a request line: a token that strconv.Atoi accepts (num)
\* with its value, or any other token with its text.
StrArg(s) == [num |-> FALSE, n |-> 0, s |-> s]
NumArg(k) == [num |-> TRUE, n |-> k, s |-> ""]
ArgText(a) == IF a.num THEN ToString(a.n) ELSE a.s

Names == {"", "alice", "bob"}
\* Wire numbers: from below the sentinel up to two past the last message.
WireNums == (0 - 2) .. (MaxMsgs + 2)

NameArgs == {StrArg(s) : s \in Names}
NumArgs == {NumArg(k) : k \in WireNums}

\* As parse, but every number is decremented.
parse_decrementAll(args) ==
  [i \in 1 .. Len(args) |-> IF args[i].num THEN args[i].n - 1 ELSE -1]

\* command.parse: the integer companion of each argument.
parse(args) ==
  [i \in 1 .. Len(args) |->
     IF args[i].num
       THEN IF i = 1 /\ args[i].n > 0 THEN args[i].n - 1 ELSE args[i].n
       ELSE -1]

Command(name, args) == [name |-> name, args |-> args, numArgs |-> parse(args)]

oneNumArg(c) == Len(c.args) = 1 /\ c.numArgs[1] # -1

twoNumArgs(c) == Len(c.args) = 2 /\ c.numArgs[1] # -1 /\ c.numArgs[2] # -1

\* ------------------------------------------------------------------ events
\* What a handler does, in program order: writes on the transport (e = "w")
\* and calls of the authorizer, the provider and the mailbox (e = "c").
\* A line is written by a conn.Write of its own, unless it is joined to the
\* line before it (j): then both leave in the same Write.
\* b is the timestamp banner a greeting or an Apop call carries.
Line(k, t, n, v) ==
  [e |-> "w", k |-> k, t |-> t, n |-> n, v |-> v, j |-> FALSE, b |-> ""]
Joined(l) == [l EXCEPT !.j = TRUE]
\* v is 1 when the call returned an error.
Call(k, t, n, err) ==
  [e |-> "c", k |-> k, t |-> t, n |-> n, v |-> IF err = NoErr THEN 0 ELSE 1,
   j |-> FALSE, b |-> ""]

OK(t) == Line("+OK", t, 0, 0)
OKn(t, n, v) == Line("+OK", t, n, v)
ERR(t) == Line("-ERR", t, 0, 0)
\* As Data, but with the 0-based number.
Data_zeroBased(t, n, v) == Line("data", t, n - 1, v)

Data(t, n, v) == Line("data", t, n, v)
\* A line of a message: n leading dots followed by the text t.
Body(t, dots) == Line("body", t, dots, 0)
Dot == Line(".", "", 0, 0)

\* Session.writeResponseLine: `-ERR <err>` when err is not nil, else the
\* `+OK` line.
writeResponseLine(okLine, err) == IF err # NoErr THEN ERR(err) ELSE okLine

ErrInvalidArguments == ERR("invalid arguments")

\* ------------------------------------------------------------------- state
\* The network, which no step changes.
VARIABLES
  greetingFails     \* per connection: the Write of the greeting fails
netVars == <<greetingFails>>

\* A call of copyHeadersAndBody(w, r, lineLimit) on its own.
VARIABLES
  copyIn,           \* r: the lines of the input, each with its line ending
  copyLimit,        \* lineLimit
  copyOut,          \* w: the lines written, each with its line ending
  copyDone          \* the call has returned
copyVars == <<copyIn, copyLimit, copyOut, copyDone>>

VARIABLES
  state,            \* Session.state
  user,             \* Session.user ("" when none is pending)
  mailbox,          \* Session.mailbox # nil
  toDelete,         \* Session.toDelete
  msgCount,         \* Session.msgCount
  timestampBanner,  \* Session.timestampBanner
  authorizer,       \* Session.authorizer: the kind of Authorizer it is
  ConnectionTimeout, \* Session.ConnectionTimeout, in seconds
  nMsgs,            \* the number of messages in the user's mailbox
  peerClosed,       \* the transport was closed from outside the session
  sessClosed,       \* the session itself called conn.Close
  reader,           \* the goroutine timeoutCall left behind in readCommand
  serve,            \* Session.Serve: "running", or what it returned
  pc,               \* in Serve's loop: about to "read" a line, or to "handle" it
  cmd,              \* the command of the last step
  pre,              \* the session fields before the last step
  out,              \* the lines the last step wrote on the transport
  calls,            \* the back-end calls the last step made
  deleLog,          \* every Mailbox.Dele call of the session, in order
  closeCount,       \* the number of Mailbox.Close calls of the session
  greeted,          \* the banner in the greeting the session sent
  firstUser         \* the name of the first USER answered `+OK send PASS`

sessVars == <<state, user, mailbox, toDelete, msgCount, timestampBanner,
              authorizer, ConnectionTimeout>>
envVars == <<nMsgs, peerClosed, sessClosed, reader>>
stepVars == <<cmd, pre, out, calls, deleLog, closeCount, greeted, firstUser>>
workerVars == <<sessVars, envVars, serve, pc, stepVars, netVars, copyVars>>

\* The server (Server, its accept workers, session workers and the callers
\* of Shutdown and Close).
VARIABLES
  inShutdown,       \* Server.inShutdown
  listeners,        \* Server.listeners
  listenersGroup,   \* Server.listenersGroup, its counter
  sessions,         \* Server.sessions
  sessionsDone,     \* Server.sessionsDone: "open" or "closed"
  panicked,         \* the process has panicked
  lnClosed,         \* per listener: how often the wrapped Listener was closed
  apc,              \* per listener: where its Server.Serve call is
  aconn,            \* per listener: the connection Accept returned (0: none)
  aerr,             \* per listener: Accept returned an error
  sret,             \* per listener: what Server.Serve returned
  nextConn,         \* the number of connections accepted so far
  spc,              \* per connection: where its session worker is
  forced,           \* per connection: the server closed its transport
  connOut,          \* per connection: the lines written on it
  connClosed,       \* per connection: its transport was closed by anyone
  deleForced,       \* per connection: Dele was called after the forced close
  cpc,              \* per caller: where its Shutdown or Close call is
  cop,              \* per caller: "Shutdown" or "Close"
  cret,             \* per caller: what the call returned
  lnerr,            \* per caller: the error of closing the listeners
  work,             \* per caller: the listeners and sessions the call closed
  leftOpen          \* per caller: the sessions still open when it returned

acceptVars == <<lnClosed, apc, aconn, aerr, sret, nextConn>>
connVars == <<spc, forced, connOut, connClosed, deleForced>>
callVars == <<cpc, cop, cret, lnerr, work, leftOpen>>
serverVars ==
  <<inShutdown, listeners, listenersGroup, sessions, sessionsDone, panicked,
    acceptVars, connVars, callVars, netVars, copyVars>>

vars == <<workerVars, serverVars>>

\* The session's fields as one record.
Sess ==
  [state |-> state, user |-> user, mailbox |-> mailbox, toDelete |-> toDelete,
   msgCount |-> msgCount, timestampBanner |-> timestampBanner,
   authorizer |-> authorizer]

\* What a handler did: the session after it, its events in program order,
\* what it returned apart from a transport write error ("nil", "msgerr" for
\* an error of the message reader, "panic"), and whether it closed the
\* transport.
Res(s, ev) == [s |-> s, ev |-> ev, ret |-> "nil", closes |-> FALSE]
Panic(s) == [s |-> s, ev |-> <<>>, ret |-> "panic", closes |-> FALSE]

\* ---------------------------------------------------------------- back end
\* Mailbox.Stat's results: the count and the total size.
StatCount == nMsgs
StatSize == 512 * nMsgs
\* What ListOne and UidlOne return for message i.
SizeOf(i) == 500 + i
UidOf(i) == i
\* The count Stat hands back together with an error.
StatCountOnError == {0, nMsgs}

\* --------------------------------------------------- AUTHORIZATION handlers
handleUser(s, c) ==
  IF s.user # ""
    THEN {Res(s, <<writeResponseLine(OK(""), ErrUserAlreadySpecified)>>)}
    ELSE IF Len(c.args) = 0
      THEN {Panic(s)}                     \* cmd.args[0]: index out of range
      ELSE {Res([s EXCEPT !.user = ArgText(c.args[1])],
                <<writeResponseLine(OK("send PASS"), NoErr)>>)}

\* As provideAndStat, but the session stays in AUTHORIZATION when the mailbox
\* could not be counted.
provideAndStat_keepState(s, u, before) ==
  {Res(s, before \o <<Call("Provide", u, 0, ErrProvide),
                      writeResponseLine(OK("logged in"), ErrProvide)>>)}
  \cup
  {Res([s EXCEPT !.mailbox = TRUE, !.state = transactionState,
                 !.msgCount = StatCount],
       before \o <<Call("Provide", u, 0, NoErr), Call("Stat", "", 0, NoErr),
                   writeResponseLine(OK("logged in"), NoErr)>>)}
  \cup
  {Res([s EXCEPT !.mailbox = TRUE, !.msgCount = m],
       before \o <<Call("Provide", u, 0, NoErr), Call("Stat", "", 0, ErrMailbox),
                   writeResponseLine(OK("logged in"), ErrMailbox)>>)
     : m \in StatCountOnError}

\* The part PASS and APOP share: Provide, then Stat on the new mailbox.
\* `before` are the events up to and including the successful authorizer call.
provideAndStat(s, u, before) ==
  {Res(s, before \o <<Call("Provide", u, 0, ErrProvide),
                      writeResponseLine(OK("logged in"), ErrProvide)>>)}
  \cup
  {Res([s EXCEPT !.mailbox = TRUE, !.state = transactionState,
                 !.msgCount = StatCount],
       before \o <<Call("Provide", u, 0, NoErr), Call("Stat", "", 0, NoErr),
                   writeResponseLine(OK("logged in"), NoErr)>>)}
  \cup
  {Res([s EXCEPT !.mailbox = TRUE, !.state = transactionState, !.msgCount = m],
       before \o <<Call("Provide", u, 0, NoErr), Call("Stat", "", 0, ErrMailbox),
                   writeResponseLine(OK("logged in"), ErrMailbox)>>)
     : m \in StatCountOnError}

handlePass(s, c) ==
  IF s.user = ""
    THEN {Res(s, <<writeResponseLine(OK(""), ErrUserNotSpecified)>>)}
    ELSE IF Len(c.args) = 0
      THEN {Panic(s)}                     \* cmd.args[0]: index out of range
      ELSE IF s.authorizer = DisableUserPass
        THEN {Res(s, <<Call("UserPass", s.user, 0, ErrNotSupportedAuthMethod),
                       writeResponseLine(OK(""), ErrNotSupportedAuthMethod)>>)}
        ELSE {Res(s, <<Call("UserPass", s.user, 0, ErrAuth),
                       writeResponseLine(OK(""), ErrAuth)>>)}
             \cup provideAndStat(s, s.user, <<Call("UserPass", s.user, 0, NoErr)>>)

\* The call Authorizer.Apop(u, banner, digest) and its result.
Apop(u, banner, err) == [Call("Apop", u, 0, err) EXCEPT !.b = banner]

\* As handleApop, but with a banner generated anew for the call.
handleApop_newBanner(s, c) ==
  IF Len(c.args) # 2
    THEN {Res(s, <<ErrInvalidArguments>>)}
    ELSE LET u == ArgText(c.args[1]) IN
         {Res(s, <<Apop(u, "<7.1@host>", ErrAuth),
                   writeResponseLine(OK(""), ErrAuth)>>)}
         \cup provideAndStat(s, u, <<Apop(u, "<7.1@host>", NoErr)>>)

handleApop(s, c) ==
  IF Len(c.args) # 2
    THEN {Res(s, <<ErrInvalidArguments>>)}
    ELSE LET u == ArgText(c.args[1]) IN
         IF s.authorizer = DisableApop
           THEN {Res(s, <<Apop(u, s.timestampBanner, ErrNotSupportedAuthMethod),
                          writeResponseLine(OK(""), ErrNotSupportedAuthMethod)>>)}
           ELSE {Res(s, <<Apop(u, s.timestampBanner, ErrAuth),
                          writeResponseLine(OK(""), ErrAuth)>>)}
                \cup provideAndStat(s, u, <<Apop(u, s.timestampBanner, NoErr)>>)

handleCapa(s, c) ==
  {Res(s, <<writeResponseLine(OK("Capability list follows"), NoErr),
            Data("USER", 0, 0), Joined(Data("TOP", 0, 0)),
            Joined(Data("UIDL", 0, 0)), Joined(Dot)>>)}

\* ------------------------------------------------------------------ commit
\* The orders in which `range` may visit a map's keys.
Orders(S) ==
  {o \in [1 .. Cardinality(S) -> S] : \A i, j \in DOMAIN o : i # j => o[i] # o[j]}

\* As DeleCalls, but the loop goes on after the Dele that fails.
DeleCalls_goOn(o, d) ==
  [i \in 1 .. Len(o) |->
     Call("Dele", "", o[i], IF i = d THEN ErrDele ELSE NoErr)]

\* The Dele calls of the commit: in order o, all succeed (d = 0) or the d-th
\* one fails and ends the loop.
DeleCalls(o, d) ==
  [i \in 1 .. (IF d = 0 THEN Len(o) ELSE d) |->
     Call("Dele", "", o[i], IF i = d THEN ErrDele ELSE NoErr)]

\* As SessionClose, but a failed Dele ends the commit: the mailbox is not closed.
SessionClose_noCloseOnError(s) ==
  IF s.mailbox
    THEN {[s |-> s,
           ev |-> DeleCalls(o, d)
                  \o (IF d = 0 THEN <<Call("Close", "", 0, closeErr)>> ELSE <<>>)
                  \o <<writeResponseLine(OK("server signing off"),
                                         IF d = 0 THEN closeErr ELSE ErrDele)>>,
           ret |-> "nil", closes |-> TRUE]
            : o \in Orders(s.toDelete), d \in 0 .. Cardinality(s.toDelete),
              closeErr \in {NoErr, ErrClose}}
    ELSE {[s |-> s,
           ev |-> <<writeResponseLine(OK("server signing off"), NoErr)>>,
           ret |-> "nil", closes |-> TRUE]}

\* Session.Close: the commit, the final status line, conn.Close (deferred).
SessionClose(s) ==
  IF s.mailbox
    THEN {[s |-> s,
           ev |-> DeleCalls(o, d) \o <<Call("Close", "", 0, closeErr)>>
                  \o <<writeResponseLine(OK("server signing off"), closeErr)>>,
           ret |-> "nil", closes |-> TRUE]
            : o \in Orders(s.toDelete), d \in 0 .. Cardinality(s.toDelete),
              closeErr \in {NoErr, ErrClose}}
    ELSE {[s |-> s,
           ev |-> <<writeResponseLine(OK("server signing off"), NoErr)>>,
           ret |-> "nil", closes |-> TRUE]}

\* As handleQuit, but the session stays in the state it was in.
handleQuit_sameState(s, c) == SessionClose(s)

handleQuit(s, c) == SessionClose([s EXCEPT !.state = updateState])

\* ---------------------------------------------------------------- messages
\* The content of message i, line by line: `dots` leading dots, then text t.
\* The empty line ends the headers.
MsgLine(t, dots) == [t |-> t, dots |-> dots]
MessageLines(i) ==
  IF i < 0 \/ i >= nMsgs
    THEN <<>>
    ELSE IF i % 2 = 0
      THEN <<MsgLine("Subject: T", 0), MsgLine("", 0), MsgLine("L1", 1),
             MsgLine("", 1)>>
      ELSE <<MsgLine("Subject: U", 0), MsgLine("", 0), MsgLine("L1", 0)>>

\* copyHeadersAndBody: the lines it writes for the scanned lines `lines` and
\* lineLimit, from line i on, with the loop's headersDone and lineCount.
RECURSIVE copyLoop(_, _, _, _, _)
copyLoop(lines, lineLimit, i, headersDone, lineCount) ==
  IF i > Len(lines)
    THEN <<>>
    ELSE LET done == headersDone \/ (lines[i].t = "" /\ lines[i].dots = 0)
             cnt == IF headersDone THEN lineCount + 1 ELSE lineCount
         IN IF cnt > lineLimit
              THEN <<>>
              ELSE <<Body(lines[i].t, lines[i].dots)>>
                   \o copyLoop(lines, lineLimit, i + 1, done, cnt)

\* As copyHeadersAndBody, but the loop ends one body line later.
copyHeadersAndBody_oneMore(lines, lineLimit) ==
  copyLoop(lines, lineLimit + 1, 1, FALSE, 0)

copyHeadersAndBody(lines, lineLimit) == copyLoop(lines, lineLimit, 1, FALSE, 0)

\* The line endings: of the input LF, CRLF, or none for a last line that ends
\* with the input; crlf is what copyHeadersAndBody writes after every line.
lf == "\n"
crlf == "\r\n"
\* An input line: the line as in a message, and its ending.
InputLine(t, dots, end) == [t |-> t, dots |-> dots, end |-> end]
\* bufio.Scanner with ScanLines: the lines without their endings.
ScanLines(input) == [i \in DOMAIN input |-> MsgLine(input[i].t, input[i].dots)]
\* What copyHeadersAndBody writes: for each line copied, w.Write(line) and
\* w.Write(crlf).
copyWrites(input, lineLimit) ==
  LET ls == copyHeadersAndBody(ScanLines(input), lineLimit)
  IN [i \in DOMAIN ls |-> InputLine(ls[i].t, ls[i].n, crlf)]

\* textproto's DotWriter over a bufio.Writer: a line that begins with a dot
\* gets one more, the terminator follows, and all of it leaves in one Write
\* when the writer is closed.
dotStuff(lines) ==
  [i \in 1 .. Len(lines) + 1 |->
     IF i > Len(lines)
       THEN IF i = 1 THEN Dot ELSE Joined(Dot)
       ELSE LET l == Body(lines[i].t,
                          IF lines[i].dots > 0 THEN lines[i].dots + 1 ELSE 0)
            IN IF i = 1 THEN l ELSE Joined(l)]

\* Where the message reader may fail: after its first line (at once, when it
\* has none), or never (-1).
ReadFailures(lines) == {-1} \cup (IF Len(lines) > 0 THEN {1} ELSE {0})
Scanned(lines, j) == IF j = -1 THEN lines ELSE SubSeq(lines, 1, j)

\* ----------------------------------------------------- TRANSACTION handlers
isMarkedAsDeleted(s, msg) == msg \in s.toDelete

handleUidl(s, c) ==
  IF oneNumArg(c)
    THEN LET n == c.numArgs[1] IN
         IF isMarkedAsDeleted(s, n)
           THEN {Res(s, <<writeResponseLine(OK(""), ErrMessageMarkedAsDeleted)>>)}
           ELSE {Res(s, <<Call("UidlOne", "", n, err),
                          writeResponseLine(OKn("uidl", n + 1, UidOf(n)), err)>>)
                   : err \in {NoErr, ErrMailbox}}
    ELSE {Res(s, <<Call("Uidl", "", 0, NoErr),
                   writeResponseLine(OKn("messages in mailbox", nMsgs, 0), NoErr)>>
                 \o [i \in 1 .. nMsgs |-> Data("uidl", i, UidOf(i - 1))]
                 \o <<Dot>>),
          Res(s, <<Call("Uidl", "", 0, ErrMailbox),
                   writeResponseLine(OKn("messages in mailbox", 0, 0), ErrMailbox),
                   Dot>>)}

handleTop(s, c) ==
  IF ~twoNumArgs(c)
    THEN {Res(s, <<ErrInvalidArguments>>)}
    ELSE LET n == c.numArgs[1]
             nLines == c.numArgs[2]
         IN IF isMarkedAsDeleted(s, n)
              THEN {Res(s, <<writeResponseLine(OK(""), ErrMessageMarkedAsDeleted)>>)}
              ELSE {Res(s, <<Call("Message", "", n, ErrMailbox),
                             writeResponseLine(OK("message body"), ErrMailbox)>>)}
                   \cup
                   {[s |-> s,
                     ev |-> <<Call("Message", "", n, NoErr),
                              writeResponseLine(OK("message body"), NoErr)>>
                            \o copyHeadersAndBody(Scanned(MessageLines(n), j), nLines)
                            \o (IF j = -1
                                  THEN <<Call("ReaderClose", "", n, NoErr), Dot>>
                                  ELSE <<>>),
                     ret |-> IF j = -1 THEN "nil" ELSE "msgerr",
                     closes |-> FALSE]
                      : j \in ReadFailures(MessageLines(n))}

handleNoop(s, c) == {Res(s, <<writeResponseLine(OK("noop"), NoErr)>>)}

\* As handleRset, but the deletion set is left as it is.
handleRset_keep(s, c) ==
  {Res(s, <<writeResponseLine(OK("maildrop has been reset"), NoErr)>>)}

\* Session.handleRset: clear(s.toDelete), then the reply.
handleRset(s, c) ==
  {Res([s EXCEPT !.toDelete = {}],
       <<writeResponseLine(OK("maildrop has been reset"), NoErr)>>)}

\* As handleDele, but the message is deleted from the mailbox at once.
handleDele_eager(s, c) ==
  IF oneNumArg(c) /\ ~isMarkedAsDeleted(s, c.numArgs[1]) /\ c.numArgs[1] <= s.msgCount
    THEN {Res([s EXCEPT !.toDelete = @ \cup {c.numArgs[1]}],
              <<Call("Dele", "", c.numArgs[1], NoErr),
                writeResponseLine(OK("message deleted"), NoErr)>>)}
    ELSE {Res(s, <<ErrInvalidArguments>>)}

handleDele(s, c) ==
  IF ~oneNumArg(c)
    THEN {Res(s, <<ErrInvalidArguments>>)}
    ELSE LET n == c.numArgs[1] IN
         IF isMarkedAsDeleted(s, n)
           THEN {Res(s, <<writeResponseLine(OK(""), ErrMessageMarkedAsDeleted)>>)}
           ELSE IF n > s.msgCount
             THEN {Res(s, <<ErrInvalidArguments>>)}
             ELSE {Res([s EXCEPT !.toDelete = @ \cup {n}],
                       <<writeResponseLine(OK("message deleted"), NoErr)>>)}

handleRetr(s, c) ==
  IF ~oneNumArg(c)
    THEN {Res(s, <<ErrInvalidArguments>>)}
    ELSE LET n == c.numArgs[1] IN
         IF isMarkedAsDeleted(s, n)
           THEN {Res(s, <<writeResponseLine(OK(""), ErrMessageMarkedAsDeleted)>>)}
           ELSE {Res(s, <<Call("Message", "", n, ErrMailbox),
                          writeResponseLine(OKn("message body #", n + 1, 0), ErrMailbox)>>)}
                \cup
                {[s |-> s,
                  ev |-> <<Call("Message", "", n, NoErr),
                           writeResponseLine(OKn("message body #", n + 1, 0), NoErr),
                           Call("ReaderClose", "", n, NoErr)>>
                         \o dotStuff(Scanned(MessageLines(n), j)),
                  ret |-> IF j = -1 THEN "nil" ELSE "msgerr",
                  closes |-> FALSE]
                   : j \in ReadFailures(MessageLines(n))}

\* As handleStat, but the count is stored in msgCount as it is at login.
handleStat_recount(s, c) ==
  {Res([s EXCEPT !.msgCount = StatCount],
       <<Call("Stat", "", 0, NoErr),
         writeResponseLine(OKn("stat", StatCount, StatSize), NoErr)>>),
   Res([s EXCEPT !.msgCount = 0],
       <<Call("Stat", "", 0, ErrMailbox),
         writeResponseLine(OKn("stat", 0, 0), ErrMailbox)>>)}

handleStat(s, c) ==
  {Res(s, <<Call("Stat", "", 0, NoErr),
            writeResponseLine(OKn("stat", StatCount, StatSize), NoErr)>>),
   Res(s, <<Call("Stat", "", 0, ErrMailbox),
            writeResponseLine(OKn("stat", 0, 0), ErrMailbox)>>)}

handleList(s, c) ==
  IF oneNumArg(c)
    THEN LET n == c.numArgs[1] IN
         {Res(s, (IF isMarkedAsDeleted(s, n)
                    THEN <<writeResponseLine(OK(""), ErrMessageMarkedAsDeleted)>>
                    ELSE <<>>)
                 \o <<Call("ListOne", "", n, err),
                      writeResponseLine(OKn("list", n + 1, SizeOf(n)), err)>>)
            : err \in {NoErr, ErrMailbox}}
    ELSE {Res(s, <<Call("List", "", 0, NoErr),
                   writeResponseLine(OKn("messages in mailbox", nMsgs, 0), NoErr)>>
                 \o [i \in 1 .. nMsgs |-> Data("list", i, SizeOf(i - 1))]
                 \o <<Dot>>),
          Res(s, <<Call("List", "", 0, ErrMailbox),
                   writeResponseLine(OKn("messages in mailbox", 0, 0), ErrMailbox),
                   Dot>>)}

\* ---------------------------------------------------------------- dispatch
\* As authorizationStateDispatch, with NOOP served before authentication.
authorizationStateDispatch_noop == {userCmd, passCmd, quitCmd, apopCmd, capaCmd, noopCmd}

authorizationStateDispatch == {userCmd, passCmd, quitCmd, apopCmd, capaCmd}
\* As transactionStateDispatch, with the login commands served again.
transactionStateDispatch_login ==
  {quitCmd, capaCmd, statCmd, listCmd, retrCmd, deleCmd, rsetCmd, noopCmd,
   topCmd, uidlCmd, passCmd, apopCmd}

transactionStateDispatch ==
  {quitCmd, capaCmd, statCmd, listCmd, retrCmd, deleCmd, rsetCmd, noopCmd,
   topCmd, uidlCmd}

starteDispatch(st) ==
  IF st = authorizationState THEN authorizationStateDispatch
  ELSE IF st = transactionState THEN transactionStateDispatch
  ELSE {}

handler(s, c) ==
  CASE c.name = userCmd -> handleUser(s, c)
    [] c.name = passCmd -> handlePass(s, c)
    [] c.name = apopCmd -> handleApop(s, c)
    [] c.name = capaCmd -> handleCapa(s, c)
    [] c.name = quitCmd -> handleQuit(s, c)
    [] c.name = statCmd -> handleStat(s, c)
    [] c.name = listCmd -> handleList(s, c)
    [] c.name = retrCmd -> handleRetr(s, c)
    [] c.name = deleCmd -> handleDele(s, c)
    [] c.name = rsetCmd -> handleRset(s, c)
    [] c.name = noopCmd -> handleNoop(s, c)
    [] c.name = topCmd -> handleTop(s, c)
    [] c.name = uidlCmd -> handleUidl(s, c)

\* Session.handleState: the handler the table of the state has for the verb,
\* or `-ERR invalid command`.
handleState(dispatcher, s, c) ==
  IF c.name \in dispatcher
    THEN handler(s, c)
    ELSE {Res(s, <<writeResponseLine(OK(""), ErrInvalidCommand)>>)}

\* ------------------------------------------------------------------ a step
Writes(ev) == SelectSeq(ev, LAMBDA x : x.e = "w")
CallsOf(ev) == SelectSeq(ev, LAMBDA x : x.e = "c")

\* As UpToWrite, but the handler goes on after the failed Write.
UpToWrite_goesOn(ev, f) == ev

\* The number of conn.Write calls among the events ev.
NumWrites(ev) == Len(SelectSeq(ev, LAMBDA x : x.e = "w" /\ ~x.j))

\* The events of ev that happen when its f-th Write fails (f = 0: none does):
\* those before that Write.
RECURSIVE UpToWrite(_, _)
UpToWrite(ev, f) ==
  IF f = 0 \/ ev = <<>>
    THEN ev
    ELSE IF Head(ev).e = "w" /\ ~Head(ev).j
      THEN IF f = 1 THEN <<>> ELSE <<Head(ev)>> \o UpToWrite(Tail(ev), f - 1)
      ELSE <<Head(ev)>> \o UpToWrite(Tail(ev), f)

\* What Session.Serve does after a handler returned: "running" is the next
\* iteration of its loop.
ServeAfter(r, f) ==
  IF r.ret = "panic" THEN "panic"
  ELSE IF f > 0 THEN "writeerr"
  ELSE IF r.ret # "nil" THEN r.ret
  ELSE IF r.s.state = updateState THEN "nil"
  ELSE "running"

NoCmd(what) == [name |-> what, args |-> <<>>, numArgs |-> <<>>]

\* Session.Serve, the first half of an iteration: readCommand returns the
\* parsed command c.
readCommand(c) ==
  /\ serve = "running"
  /\ pc = "read"
  /\ ~peerClosed
  /\ pc' = "handle"
  /\ cmd' = c
  /\ pre' = Sess
  /\ out' = <<>>
  /\ calls' = <<>>
  /\ UNCHANGED <<sessVars, envVars, serve, deleLog, closeCount, greeted, firstUser>>
  /\ UNCHANGED serverVars

\* The Writes that may fail among n: any one or none, and the first one when
\* the transport has been closed from outside.
WriteFailures(n) == IF peerClosed /\ n > 0 THEN {1} ELSE 0 .. n

\* Session.Serve, the second half of an iteration: handleState on the command
\* read, whose verb is `name`.
Serve(name) ==
  /\ serve = "running"
  /\ pc = "handle"
  /\ cmd.name = name
  /\ \E r \in handleState(starteDispatch(state), Sess, cmd) :
       \E f \in WriteFailures(NumWrites(r.ev)) :
         LET ev == UpToWrite(r.ev, f) IN
         /\ state' = r.s.state
         /\ user' = r.s.user
         /\ mailbox' = r.s.mailbox
         /\ toDelete' = r.s.toDelete
         /\ msgCount' = r.s.msgCount
         /\ timestampBanner' = r.s.timestampBanner
         /\ sessClosed' = (sessClosed \/ r.closes)
         /\ serve' = ServeAfter(r, f)
         /\ out' = Writes(ev)
         /\ calls' = CallsOf(ev)
         /\ deleLog' = deleLog \o SelectSeq(ev, LAMBDA x : x.e = "c" /\ x.k = "Dele")
         /\ closeCount' = closeCount
                            + Len(SelectSeq(ev, LAMBDA x : x.e = "c" /\ x.k = "Close"))
         /\ firstUser' =
              IF ~firstUser.set /\ cmd.name = userCmd
                 /\ Writes(r.ev) = <<OK("send PASS")>>
                THEN [set |-> TRUE, name |-> ArgText(cmd.args[1])]
                ELSE firstUser
  /\ pc' = "read"
  /\ UNCHANGED <<authorizer, ConnectionTimeout, nMsgs, peerClosed, reader, cmd, pre,
                 greeted>>
  /\ UNCHANGED serverVars

\* An iteration in which the read fails: EOF, or another transport error.
ReadError ==
  /\ serve = "running"
  /\ pc = "read"
  /\ \E e \in {"EOF", "readerr"} :
       /\ peerClosed => e = "readerr"
       /\ serve' = e
  /\ cmd' = NoCmd("<read error>")
  /\ pre' = Sess
  /\ out' = <<>>
  /\ calls' = <<>>
  /\ UNCHANGED <<sessVars, envVars, pc, deleLog, closeCount, greeted, firstUser>>
  /\ UNCHANGED serverVars

\* timeoutCall(fn, timeout): the timer fires before fn, the line read, has
\* returned; with timeout <= 0 there is no timer. The goroutine that runs fn
\* is not stopped: it stays in its read of the transport.
timeoutCall(timeout) ==
  /\ timeout > 0
  /\ serve' = "deadline"
  /\ reader' = "pending"

\* The timeout Serve passes to timeoutCall, in seconds.
readTimeout == 10

\* Session.Serve, an iteration in which the read times out.
Timeout ==
  /\ serve = "running"
  /\ pc = "read"
  /\ timeoutCall(readTimeout)
  /\ cmd' = NoCmd("<timeout>")
  /\ pre' = Sess
  /\ out' = <<>>
  /\ calls' = <<>>
  /\ UNCHANGED <<sessVars, nMsgs, peerClosed, sessClosed, pc, deleLog, closeCount,
                 greeted, firstUser>>
  /\ UNCHANGED serverVars

\* The goroutine timeoutCall left behind: its ReadString returns with the next
\* line the client sends, and it assigns v and err, the results of the
\* timeoutCall that has returned.
lateRead ==
  /\ reader = "pending"
  /\ ~peerClosed /\ ~sessClosed
  /\ reader' = "done"
  /\ UNCHANGED <<sessVars, nMsgs, peerClosed, sessClosed, serve, pc, stepVars>>
  /\ UNCHANGED serverVars

\* Server.forceCloseAllSessions: session.conn.Close() from outside the worker.
ForceClose ==
  /\ serve = "running"
  /\ ~peerClosed
  /\ peerClosed' = TRUE
  /\ UNCHANGED <<sessVars, nMsgs, sessClosed, reader, serve, pc, stepVars>>
  /\ UNCHANGED serverVars

\* ------------------------------------------------------------- the inputs
NoArgs == {<<>>}
NameArgLists == NoArgs \cup {<<a>> : a \in NameArgs}
ApopArgLists ==
  NameArgLists \cup {<<a, StrArg("digest")>> : a \in NameArgs \ {StrArg("")}}
IndexArgLists ==
  NoArgs \cup {<<a>> : a \in NumArgs \cup {StrArg("x")}}
         \cup {<<NumArg(1), NumArg(1)>>}
TopArgLists ==
  NoArgs \cup {<<NumArg(1)>>, <<StrArg("x"), NumArg(1)>>, <<NumArg(1), StrArg("x")>>}
         \cup {<<a, NumArg(1)>> : a \in NumArgs}
         \cup {<<NumArg(1), NumArg(k)>> : k \in {-2, -1, 0, 5}}

ArgLists(verb) ==
  IF verb \in {userCmd, passCmd} THEN NameArgLists
  ELSE IF verb = apopCmd THEN ApopArgLists
  ELSE IF verb \in {listCmd, uidlCmd, retrCmd, deleCmd} THEN IndexArgLists
  ELSE IF verb = topCmd THEN TopArgLists
  ELSE NoArgs

\* generateTimestampBanner: <pid.micros@host>, new for every session.
Banners == {"<7.1@host>", "<7.2@host>"}

\* The values of ConnectionTimeout a server is configured with, in seconds:
\* none (the default), and one longer than readTimeout.
Timeouts == {0, 30}

\* NewSession, the greeting written.
Greeting(banner) == [OK("POP3 server ready") EXCEPT !.b = banner]

\* ------------------------------------------------------ the server, set up
\* The listeners Server.Serve is called with, the connections clients open,
\* and the callers of Shutdown and Close.
MaxListeners == 2
MaxConns == 2
MaxCallers == 2
Listeners == 1 .. MaxListeners
Conns == 1 .. MaxConns
Callers == 1 .. MaxCallers

\* Server.ConnectionsLimit, as configured.
ConnectionsLimit == 1

ErrServerClosed == "pop3: server closed"
ErrTooManyConnections == "pop3: too many connections"
\* An error of Listener.Accept or Listener.Close, and ctx.Err().
ErrListener == "listener error"
ErrDeadline == "context deadline exceeded"

\* NewServer: no listener, no session, the drained signal not fired.
NewServer ==
  /\ inShutdown = FALSE
  /\ listeners = {}
  /\ listenersGroup = 0
  /\ sessions = {}
  /\ sessionsDone = "open"
  /\ panicked = FALSE
  /\ lnClosed = [l \in Listeners |-> 0]
  /\ apc = [l \in Listeners |-> "idle"]
  /\ aconn = [l \in Listeners |-> 0]
  /\ aerr = [l \in Listeners |-> FALSE]
  /\ sret = [l \in Listeners |-> ""]
  /\ nextConn = 0
  /\ spc = [c \in Conns |-> "none"]
  /\ forced = [c \in Conns |-> FALSE]
  /\ connOut = [c \in Conns |-> <<>>]
  /\ connClosed = [c \in Conns |-> FALSE]
  /\ deleForced = [c \in Conns |-> FALSE]
  /\ cpc = [k \in Callers |-> "idle"]
  /\ cop = [k \in Callers |-> ""]
  /\ cret = [k \in Callers |-> ""]
  /\ lnerr = [k \in Callers |-> NoErr]
  /\ work = [k \in Callers |-> {}]
  /\ leftOpen = [k \in Callers |-> {}]
  /\ greetingFails \in [Conns -> BOOLEAN]

\* NewSession: the session of a connection, its greeting written.
NewSession ==
  /\ state = authorizationState
  /\ user = ""
  /\ mailbox = FALSE
  /\ toDelete = {}
  /\ msgCount = 0
  /\ timestampBanner \in Banners
  /\ authorizer \in Authorizers
  /\ ConnectionTimeout \in Timeouts
  /\ nMsgs \in 0 .. MaxMsgs
  /\ peerClosed = FALSE
  /\ sessClosed = FALSE
  /\ reader = "none"
  /\ serve = "running"
  /\ pc = "read"
  /\ cmd = NoCmd("<greeting>")
  /\ pre = Sess
  /\ out = <<Greeting(timestampBanner)>>
  /\ calls = <<>>
  /\ deleLog = <<>>
  /\ closeCount = 0
  /\ greeted = timestampBanner
  /\ firstUser = [set |-> FALSE, name |-> ""]

\* No call of copyHeadersAndBody on its own.
NoCopy ==
  /\ copyIn = <<>>
  /\ copyLimit = 0
  /\ copyOut = <<>>
  /\ copyDone = TRUE

\* One session, served on its own: the server takes no step. Its authorizer
\* supports both ways of logging in.
Init ==
  /\ NewSession
  /\ NewServer
  /\ authorizer = Authorizer
  /\ greetingFails = [c \in Conns |-> FALSE]
  /\ NoCopy

\* The request lines a client sends, parsed.
Commands ==
  {Command(v, a) : <<v, a>> \in {<<v, a>> \in Verbs \X UNION {ArgLists(w) : w \in Verbs}
                                     : a \in ArgLists(v)}}
  \cup {Command(v, <<>>) : v \in UnknownVerbs}

ReadCommand == \E c \in Commands : readCommand(c)

CmdUser == Serve(userCmd)
CmdPass == Serve(passCmd)
CmdApop == Serve(apopCmd)
CmdCapa == Serve(capaCmd)
CmdQuit == Serve(quitCmd)
CmdStat == Serve(statCmd)
CmdList == Serve(listCmd)
CmdRetr == Serve(retrCmd)
CmdDele == Serve(deleCmd)
CmdRset == Serve(rsetCmd)
CmdNoop == Serve(noopCmd)
CmdTop == Serve(topCmd)
CmdUidl == Serve(uidlCmd)
CmdUnknown == \E v \in UnknownVerbs : Serve(v)

LateRead == lateRead

Next ==
  \/ ReadCommand
  \/ CmdUser \/ CmdPass \/ CmdApop \/ CmdCapa \/ CmdQuit
  \/ CmdStat \/ CmdList \/ CmdRetr \/ CmdDele \/ CmdRset \/ CmdNoop
  \/ CmdTop \/ CmdUidl \/ CmdUnknown
  \/ ReadError \/ Timeout \/ ForceClose \/ LateRead

Spec == Init /\ [][Next]_vars

\* One session of a one-message mailbox, with each kind of authorizer.
AuthInit ==
  /\ NewSession
  /\ NewServer
  /\ timestampBanner = "<7.1@host>"
  /\ ConnectionTimeout = 0
  /\ nMsgs = 1
  /\ greetingFails = [c \in Conns |-> FALSE]
  /\ NoCopy
AuthSpec == AuthInit /\ [][Next]_vars

\* ============================================================== the server
\* ------------------------------------------------------- Server.Serve(l)
\* As onceClose, but without the once-guard.
onceClose_always(n) == n + 1

\* onceCloseListener.Close: the wrapped Listener is closed by the first call
\* only; n counts its closings.
onceClose(n) == IF n = 0 THEN 1 ELSE n

\* Server.Serve up to its loop: addListener, under listenersMu. When the server
\* is shutting down Serve returns, and l.Close, which it has deferred, runs.
addListener(l) ==
  /\ ~panicked
  /\ apc[l] = "idle"
  /\ IF inShutdown
       THEN /\ sret' = [sret EXCEPT ![l] = ErrServerClosed]
            /\ lnClosed' = [lnClosed EXCEPT ![l] = onceClose(@)]
            /\ apc' = [apc EXCEPT ![l] = "done"]
            /\ UNCHANGED <<listeners, listenersGroup>>
       ELSE /\ listeners' = listeners \cup {l}
            /\ listenersGroup' = listenersGroup + 1
            /\ apc' = [apc EXCEPT ![l] = "accept"]
            /\ UNCHANGED <<sret, lnClosed>>
  /\ UNCHANGED <<inShutdown, sessions, sessionsDone, panicked, aconn, aerr,
                 nextConn, connVars, callVars, workerVars>>

\* Server.Serve, its loop from l.Accept to NewSession. Accept returns a new
\* connection while the listener is open, or an error, as it does once the
\* listener is closed; then come the shuttingDown test, the error test, and
\* NewSession, which writes the greeting; the Write may fail, and the error
\* NewSession returns for it is not looked at.
Accept(l) ==
  /\ ~panicked
  /\ apc[l] = "accept"
  /\ \/ /\ lnClosed[l] = 0
        /\ nextConn < MaxConns
        /\ nextConn' = nextConn + 1
        /\ aconn' = [aconn EXCEPT ![l] = nextConn + 1]
        /\ aerr' = [aerr EXCEPT ![l] = FALSE]
     \/ /\ aconn' = [aconn EXCEPT ![l] = 0]
        /\ aerr' = [aerr EXCEPT ![l] = TRUE]
        /\ UNCHANGED nextConn
  /\ IF inShutdown
       THEN /\ sret' = [sret EXCEPT ![l] = ErrServerClosed]
            /\ apc' = [apc EXCEPT ![l] = "return"]
            /\ UNCHANGED connOut
       ELSE IF aerr'[l]
         THEN /\ sret' = [sret EXCEPT ![l] = ErrListener]
              /\ apc' = [apc EXCEPT ![l] = "return"]
              /\ UNCHANGED connOut
         ELSE /\ connOut' = [connOut EXCEPT ![aconn'[l]] =
                                UpToWrite(<<Greeting("<7.1@host>")>>,
                                          IF greetingFails[aconn'[l]] THEN 1 ELSE 0)]
              /\ apc' = [apc EXCEPT ![l] = "add"]
              /\ UNCHANGED sret
  /\ UNCHANGED <<inShutdown, listeners, listenersGroup, sessions, sessionsDone,
                 panicked, lnClosed, spc, forced, connClosed, deleForced,
                 callVars, workerVars>>

\* As addSession, but without the test against ConnectionsLimit.
addSession_noLimit(S) == NoErr

\* Server.addSession on the active set S: the error it returns.
addSession(S) ==
  IF Cardinality(S) >= ConnectionsLimit THEN ErrTooManyConnections ELSE NoErr

\* Server.Serve from addSession to the next Accept: on an error the reply
\* session.writeResponseLine("", err), err being the error of Accept, and
\* `continue`; else the session is in the set and its worker is started.
serveSession(l) ==
  /\ ~panicked
  /\ apc[l] = "add"
  /\ LET c == aconn[l] IN
     IF addSession(sessions) # NoErr
       THEN /\ connOut' =
                 [connOut EXCEPT ![c] =
                    @ \o <<writeResponseLine(OK(""), IF aerr[l] THEN ErrListener
                                                               ELSE NoErr)>>]
            /\ UNCHANGED <<sessions, spc>>
       ELSE /\ sessions' = sessions \cup {c}
            /\ spc' = [spc EXCEPT ![c] = "read"]
            /\ UNCHANGED connOut
  /\ apc' = [apc EXCEPT ![l] = "accept"]
  /\ UNCHANGED <<inShutdown, listeners, listenersGroup, sessionsDone, panicked,
                 lnClosed, aconn, aerr, sret, nextConn, forced, connClosed,
                 deleForced, callVars, workerVars>>

\* Server.Serve returns: the deferred removeListener, under listenersMu, and
\* then the deferred l.Close.
removeListener(l) ==
  /\ ~panicked
  /\ apc[l] = "return"
  /\ listeners' = listeners \ {l}
  /\ listenersGroup' = listenersGroup - 1
  /\ lnClosed' = [lnClosed EXCEPT ![l] = onceClose(@)]
  /\ apc' = [apc EXCEPT ![l] = "done"]
  /\ UNCHANGED <<inShutdown, sessions, sessionsDone, panicked, aconn, aerr, sret,
                 nextConn, connVars, callVars, workerVars>>

\* --------------------------------------------------- the session workers
\* session.Serve: readCommand returns the line QUIT.
sessionReadQuit(c) ==
  /\ ~panicked
  /\ spc[c] = "read"
  /\ ~forced[c]
  /\ spc' = [spc EXCEPT ![c] = "quit"]
  /\ UNCHANGED <<inShutdown, listeners, listenersGroup, sessions, sessionsDone,
                 panicked, acceptVars, forced, connOut, connClosed, deleForced,
                 callVars, workerVars>>

\* session.Serve: handleQuit, that is Session.Close: the commit calls Dele
\* when messages are marked (dele), the sign-off is written unless the Write
\* fails, the transport is closed, and Serve returns.
sessionQuit(c) ==
  /\ ~panicked
  /\ spc[c] = "quit"
  /\ \E dele \in BOOLEAN :
       deleForced' = [deleForced EXCEPT ![c] = dele /\ forced[c]]
  /\ connOut' = [connOut EXCEPT ![c] =
                   IF forced[c] THEN @ ELSE @ \o <<OK("server signing off")>>]
  /\ connClosed' = [connClosed EXCEPT ![c] = TRUE]
  /\ spc' = [spc EXCEPT ![c] = "delete"]
  /\ UNCHANGED <<inShutdown, listeners, listenersGroup, sessions, sessionsDone,
                 panicked, acceptVars, forced, callVars, workerVars>>

\* session.Serve returns an error: a read or a Write failed, as they do on a
\* closed transport, or the read timed out. There is no commit.
sessionError(c) ==
  /\ ~panicked
  /\ spc[c] = "read"
  /\ spc' = [spc EXCEPT ![c] = "delete"]
  /\ UNCHANGED <<inShutdown, listeners, listenersGroup, sessions, sessionsDone,
                 panicked, acceptVars, forced, connOut, connClosed, deleForced,
                 callVars, workerVars>>

\* Server.deleteSession, by the worker.
deleteSession(c) ==
  /\ ~panicked
  /\ spc[c] = "delete"
  /\ sessions' = sessions \ {c}
  /\ spc' = [spc EXCEPT ![c] = "check"]
  /\ UNCHANGED <<inShutdown, listeners, listenersGroup, sessionsDone, panicked,
                 acceptVars, forced, connOut, connClosed, deleForced, callVars,
                 workerVars>>

\* The worker's test s.inShutdown.Load() && !s.hasActiveSessions(). The flag
\* is never reset, so the test is one step, taken at the second read.
hasActiveSessions(c) ==
  /\ ~panicked
  /\ spc[c] = "check"
  /\ spc' = [spc EXCEPT ![c] = IF inShutdown /\ sessions = {} THEN "signal"
                                                              ELSE "done"]
  /\ UNCHANGED <<inShutdown, listeners, listenersGroup, sessions, sessionsDone,
                 panicked, acceptVars, forced, connOut, connClosed, deleForced,
                 callVars, workerVars>>

\* close(s.sessionsDone): closing a closed channel panics.
closeDone(done) == IF done = "closed" THEN "panic" ELSE "closed"

\* The worker fires the drained signal.
signalDone(c) ==
  /\ ~panicked
  /\ spc[c] = "signal"
  /\ IF closeDone(sessionsDone) = "panic"
       THEN panicked' = TRUE /\ UNCHANGED sessionsDone
       ELSE sessionsDone' = closeDone(sessionsDone) /\ UNCHANGED panicked
  /\ spc' = [spc EXCEPT ![c] = "done"]
  /\ UNCHANGED <<inShutdown, listeners, listenersGroup, sessions, acceptVars,
                 forced, connOut, connClosed, deleForced, callVars, workerVars>>

\* --------------------------------------------------- Shutdown and Close
\* As compareAndSwap, but a plain Store(true).
compareAndSwap_store(flag) == TRUE

\* s.inShutdown.CompareAndSwap(false, true) on the flag's value: whether it
\* swapped.
compareAndSwap(flag) == ~flag

\* Server.Shutdown or Server.Close (op), its first statement.
enter(k, op) ==
  /\ ~panicked
  /\ cpc[k] = "idle"
  /\ IF compareAndSwap(inShutdown)
       THEN /\ inShutdown' = TRUE
            /\ cop' = [cop EXCEPT ![k] = op]
            /\ cpc' = [cpc EXCEPT ![k] = "closeln"]
            /\ UNCHANGED cret
       ELSE /\ cret' = [cret EXCEPT ![k] = ErrServerClosed]
            /\ cpc' = [cpc EXCEPT ![k] = "done"]
            /\ UNCHANGED <<inShutdown, cop>>
  /\ UNCHANGED <<listeners, listenersGroup, sessions, sessionsDone, panicked,
                 acceptVars, connVars, lnerr, work, leftOpen, workerVars>>

\* Server.closeListenersLocked, under listenersMu: the first error of closing
\* a registered listener, if any.
closeListenersLocked(k) ==
  /\ ~panicked
  /\ cpc[k] = "closeln"
  /\ lnClosed' = [l \in Listeners |->
                    IF l \in listeners THEN onceClose(lnClosed[l]) ELSE lnClosed[l]]
  /\ \E e \in (IF listeners = {} THEN {NoErr} ELSE {NoErr, ErrListener}) :
       lnerr' = [lnerr EXCEPT ![k] = e]
  /\ work' = [work EXCEPT ![k] = @ \cup {<<"listener", l>> : l \in listeners}]
  /\ cpc' = [cpc EXCEPT ![k] = "wait"]
  /\ UNCHANGED <<inShutdown, listeners, listenersGroup, sessions, sessionsDone,
                 panicked, apc, aconn, aerr, sret, nextConn, connVars, cop, cret,
                 leftOpen, workerVars>>

\* s.listenersGroup.Wait() returns.
waitListeners(k) ==
  /\ ~panicked
  /\ cpc[k] = "wait"
  /\ listenersGroup = 0
  /\ cpc' = [cpc EXCEPT ![k] = IF cop[k] = "Shutdown" THEN "empty" ELSE "force"]
  /\ UNCHANGED <<inShutdown, listeners, listenersGroup, sessions, sessionsDone,
                 panicked, acceptVars, connVars, cop, cret, lnerr, work, leftOpen,
                 workerVars>>

\* Server.Shutdown, under sessionsMu: the drained signal is fired at once
\* when no session is active.
shutdownEmpty(k) ==
  /\ ~panicked
  /\ cpc[k] = "empty"
  /\ IF sessions = {}
       THEN IF closeDone(sessionsDone) = "panic"
              THEN panicked' = TRUE /\ UNCHANGED sessionsDone
              ELSE sessionsDone' = closeDone(sessionsDone) /\ UNCHANGED panicked
       ELSE UNCHANGED <<sessionsDone, panicked>>
  /\ cpc' = [cpc EXCEPT ![k] = "select"]
  /\ UNCHANGED <<inShutdown, listeners, listenersGroup, sessions, acceptVars,
                 connVars, cop, cret, lnerr, work, leftOpen, workerVars>>

\* Server.Shutdown, select: case <-ctx.Done(): return ctx.Err().
shutdownDeadline(k) ==
  /\ ~panicked
  /\ cpc[k] = "select"
  /\ cret' = [cret EXCEPT ![k] = ErrDeadline]
  /\ leftOpen' = [leftOpen EXCEPT ![k] =
                    {c \in sessions : ~forced[c] /\ ~connClosed[c]}]
  /\ cpc' = [cpc EXCEPT ![k] = "done"]
  /\ UNCHANGED <<inShutdown, listeners, listenersGroup, sessions, sessionsDone,
                 panicked, acceptVars, connVars, cop, lnerr, work, workerVars>>

\* Server.Shutdown, select: case <-s.sessionsDone.
shutdownDrained(k) ==
  /\ ~panicked
  /\ cpc[k] = "select"
  /\ sessionsDone = "closed"
  /\ cpc' = [cpc EXCEPT ![k] = "force"]
  /\ UNCHANGED <<inShutdown, listeners, listenersGroup, sessions, sessionsDone,
                 panicked, acceptVars, connVars, cop, cret, lnerr, work, leftOpen,
                 workerVars>>

\* Server.forceCloseAllSessions, under sessionsMu, and `return lnerr`.
forceCloseAllSessions(k) ==
  /\ ~panicked
  /\ cpc[k] = "force"
  /\ forced' = [c \in Conns |-> forced[c] \/ c \in sessions]
  /\ connClosed' = [c \in Conns |-> connClosed[c] \/ c \in sessions]
  /\ work' = [work EXCEPT ![k] = @ \cup {<<"session", c>> : c \in sessions}]
  /\ cret' = [cret EXCEPT ![k] = lnerr[k]]
  /\ leftOpen' = [leftOpen EXCEPT ![k] = {}]
  /\ cpc' = [cpc EXCEPT ![k] = "done"]
  /\ UNCHANGED <<inShutdown, listeners, listenersGroup, sessions, sessionsDone,
                 panicked, acceptVars, spc, connOut, deleForced, cop,
                 lnerr, workerVars>>

\* ------------------------------------------------------ the server's steps
ServeStart == \E l \in Listeners : addListener(l)
ServeAccept == \E l \in Listeners : Accept(l)
ServeSession == \E l \in Listeners : serveSession(l)
ServeReturn == \E l \in Listeners : removeListener(l)
WorkerReadQuit == \E c \in Conns : sessionReadQuit(c)
WorkerQuit == \E c \in Conns : sessionQuit(c)
WorkerError == \E c \in Conns : sessionError(c)
WorkerDelete == \E c \in Conns : deleteSession(c)
WorkerHasActive == \E c \in Conns : hasActiveSessions(c)
WorkerSignal == \E c \in Conns : signalDone(c)
Shutdown == \E k \in Callers : enter(k, "Shutdown")
Close == \E k \in Callers : enter(k, "Close")
CloseListeners == \E k \in Callers : closeListenersLocked(k)
WaitListeners == \E k \in Callers : waitListeners(k)
ShutdownEmpty == \E k \in Callers : shutdownEmpty(k)
ShutdownDeadline == \E k \in Callers : shutdownDeadline(k)
ShutdownDrained == \E k \in Callers : shutdownDrained(k)
ForceCloseAll == \E k \in Callers : forceCloseAllSessions(k)

\* The server with its listeners, connections and callers; the session model
\* above stays in the state of one new session.
ServerSetup ==
  /\ NewServer
  /\ NewSession
  /\ timestampBanner = "<7.1@host>"
  /\ authorizer = Authorizer
  /\ ConnectionTimeout = 0
  /\ nMsgs = 0

\* Every greeting can be written.
ServerInit == ServerSetup /\ greetingFails = [c \in Conns |-> FALSE] /\ NoCopy

ServerNext ==
  \/ ServeStart \/ ServeAccept \/ ServeSession \/ ServeReturn
  \/ WorkerReadQuit \/ WorkerQuit \/ WorkerError
  \/ WorkerDelete \/ WorkerHasActive \/ WorkerSignal
  \/ Shutdown \/ Close \/ CloseListeners \/ WaitListeners
  \/ ShutdownEmpty \/ ShutdownDeadline \/ ShutdownDrained \/ ForceCloseAll

\* The greeting of one of the connections cannot be written.
GreetingInit ==
  /\ ServerSetup
  /\ Cardinality({c \in Conns : greetingFails[c]}) = 1
  /\ NoCopy
GreetingSpec == GreetingInit /\ [][ServerNext]_vars

\* ------------------------------------------- copyHeadersAndBody on its own
MaxLines == 4
MaxLimit == 3
\* The inputs: up to MaxLines lines, each a line of text, an empty line or a
\* line that is a single dot, ended by LF or CRLF; the last line may end with
\* the input when it is not empty.
InputLines ==
  {InputLine(l[1], l[2], e) :
     l \in {<<"a", 0>>, <<"", 0>>, <<"", 1>>}, e \in {lf, crlf}}
RECURSIVE SeqsUpTo(_, _)
SeqsUpTo(S, n) ==
  IF n = 0 THEN {<<>>}
  ELSE LET T == SeqsUpTo(S, n - 1)
       IN T \cup {Append(s, x) : s \in {s \in T : Len(s) = n - 1}, x \in S}
Inputs ==
  LET T == SeqsUpTo(InputLines, MaxLines)
  IN T \cup {[s EXCEPT ![Len(s)].end = ""] :
              s \in {s \in T : s # <<>> /\ s[Len(s)] # InputLine("", 0, s[Len(s)].end)}}

CopyInit ==
  /\ ServerSetup
  /\ greetingFails = [c \in Conns |-> FALSE]
  /\ copyIn \in Inputs
  /\ copyLimit \in 0 .. MaxLimit
  /\ copyOut = <<>>
  /\ copyDone = FALSE

\* copyHeadersAndBody(w, r, lineLimit), with a writer that takes every Write.
CopyCall ==
  /\ ~copyDone
  /\ copyOut' = copyWrites(copyIn, copyLimit)
  /\ copyDone' = TRUE
  /\ UNCHANGED <<copyIn, copyLimit>>
  /\ UNCHANGED <<sessVars, envVars, serve, pc, stepVars, netVars>>
  /\ UNCHANGED <<inShutdown, listeners, listenersGroup, sessions, sessionsDone,
                 panicked, acceptVars, connVars, callVars>>

CopySpec == CopyInit /\ [][CopyCall]_vars

ServerSpec == ServerInit /\ [][ServerNext]_vars

\* The server under fair scheduling: every worker and every caller goes on
\* when it can, Accept returns once its listener is closed, and every session
\* worker returns in the end. Nothing makes a client connect, Serve, Shutdown
\* or Close be called, or the deadline of Shutdown expire.
ServerLive ==
  /\ ServerSpec
  /\ \A l \in Listeners :
       /\ WF_vars(Accept(l) /\ lnClosed[l] > 0)
       /\ WF_vars(serveSession(l))
       /\ WF_vars(removeListener(l))
  /\ \A c \in Conns :
       /\ WF_vars(sessionError(c))
       /\ WF_vars(sessionQuit(c))
       /\ WF_vars(deleteSession(c))
       /\ WF_vars(hasActiveSessions(c))
       /\ WF_vars(signalDone(c))
  /\ \A k \in Callers :
       /\ WF_vars(closeListenersLocked(k))
       /\ WF_vars(waitListeners(k))
       /\ WF_vars(shutdownEmpty(k))
       /\ WF_vars(shutdownDrained(k))
       /\ WF_vars(forceCloseAllSessions(k))

\* ================================================================== claims
\* The last step handled a command with verb `name` (the handler has returned).
Handled(name) == pc = "read" /\ cmd.name = name
\* Serve returned a transport error.
TransportErrors == {"EOF", "readerr", "writeerr"}
Ended == serve # "running"
HasCall(cs, k) == \E i \in DOMAIN cs : cs[i].k = k
IndexesOf(cs) == {cs[i].n : i \in DOMAIN cs}

\* C1: Mailbox.Dele is only ever called in the step that handles QUIT in
\* TRANSACTION; a session that ends in any other way (EOF, a transport error,
\* the idle timeout, a forced close) has made no Dele call.
C1_DeleOnlyInQuitCommit ==
  /\ HasCall(calls, "Dele") =>
       Handled(quitCmd) /\ pre.state = transactionState /\ state = updateState
  /\ deleLog # <<>> =>
       Handled(quitCmd) /\ pre.state = transactionState /\ state = updateState
  /\ (Ended /\ ~Handled(quitCmd)) => deleLog = <<>>

\* A session with messages marked as deleted whose transport was closed from
\* outside, and whose read then failed.
C1_Witness ==
  /\ serve = "readerr" /\ peerClosed
  /\ state = transactionState /\ Cardinality(toDelete) >= 2
  /\ deleLog = <<>>

\* C2: the commit of QUIT in TRANSACTION calls Dele at most once per index,
\* only for indexes of the deletion set, for every one of them when no Dele
\* fails, and then Mailbox.Close exactly once, as its last call.
C2_CommitCalls ==
  (Handled(quitCmd) /\ pre.state = transactionState) =>
    /\ \A i, j \in DOMAIN deleLog : i # j => deleLog[i].n # deleLog[j].n
    /\ IndexesOf(deleLog) \subseteq pre.toDelete
    /\ (\A i \in DOMAIN deleLog : deleLog[i].v = 0) => IndexesOf(deleLog) = pre.toDelete
    /\ closeCount = 1
    /\ calls = deleLog \o <<calls[Len(calls)]>>
    /\ calls[Len(calls)].k = "Close"

\* A commit of two deletions, none of which failed.
C2_Witness ==
  /\ Handled(quitCmd) /\ pre.state = transactionState
  /\ Cardinality(pre.toDelete) >= 2
  /\ Len(deleLog) = Cardinality(pre.toDelete)
  /\ \A i \in DOMAIN deleLog : deleLog[i].v = 0
  /\ closeCount = 1 /\ serve = "nil"

\* The verbs that carry a message number, and the 0-based index the handler
\* of the last command works on.
IndexVerbs == {listCmd, uidlCmd, retrCmd, deleCmd}
HasIndex ==
  \/ cmd.name \in IndexVerbs /\ oneNumArg(cmd)
  \/ cmd.name = topCmd /\ twoNumArgs(cmd)
Index == cmd.numArgs[1]
ErrDeleted == ERR(ErrMessageMarkedAsDeleted)

\* C3: the reply to QUIT in TRANSACTION is the single line
\* `+OK server signing off` if and only if every Dele call of the commit and
\* Mailbox.Close succeeded, and a `-ERR` line otherwise; the transport is then
\* closed and Serve returns nil.  (Stated for the runs in which the reply
\* could be written and the deletion set holds indexes of messages.)
InRange(i) == 0 <= i /\ i < pre.msgCount
C3_QuitReply ==
  (Handled(quitCmd) /\ pre.state = transactionState /\ serve # "writeerr"
     /\ \A i \in pre.toDelete : InRange(i)) =>
    /\ Len(out) = 1
    /\ (out[1] = OK("server signing off")) <=> (\A i \in DOMAIN calls : calls[i].v = 0)
    /\ out[1] # OK("server signing off") => out[1].k = "-ERR"
    /\ sessClosed
    /\ serve = "nil"

\* C4: once DELE k has succeeded, DELE k, LIST k, RETR k, TOP k _ and UIDL k
\* are answered with `-ERR message marked as deleted` and nothing else, until
\* the next RSET.  (Stated for the runs in which the reply could be written
\* and k is the number of a message.)
C4_DeletedIsRejected ==
  (pc = "read" /\ HasIndex /\ pre.state = transactionState
     /\ cmd.args[1].n >= 1 /\ InRange(Index)
     /\ Index \in pre.toDelete /\ serve = "running") =>
    out = <<ErrDeleted>>

\* C5: a command with a message number whose 0-based index is outside
\* [0, msgCount) is answered with a `-ERR` line, calls neither ListOne, UidlOne
\* nor Message, and leaves the deletion set as it was.  (Stated for the
\* numbers past the last message.)
C5_IndexIsRangeChecked ==
  (pc = "read" /\ HasIndex /\ pre.state = transactionState
     /\ cmd.args[1].n > pre.msgCount /\ ~InRange(Index)) =>
    /\ calls = <<>>
    /\ toDelete = pre.toDelete
    /\ out # <<>> => out[1].k = "-ERR"

\* C6: in AUTHORIZATION exactly USER, PASS, APOP, QUIT and CAPA reach a
\* handler, in TRANSACTION exactly QUIT, CAPA, STAT, LIST, RETR, DELE, NOOP,
\* RSET, TOP and UIDL; any other verb is answered `-ERR invalid command`, with
\* no back-end call and no change of the session, and Serve goes on to the next
\* command (it returns only if that reply could not be written).
C6_Accepted(st) ==
  IF st = authorizationState
    THEN {"USER", "PASS", "APOP", "QUIT", "CAPA"}
    ELSE {"QUIT", "CAPA", "STAT", "LIST", "RETR", "DELE", "NOOP", "RSET", "TOP", "UIDL"}

C6_Dispatch ==
  (pc = "read" /\ cmd.name \in Verbs \cup UnknownVerbs) =>
    IF cmd.name \in C6_Accepted(pre.state)
      THEN out # <<>> => out[1] # ERR("invalid command")
      ELSE /\ calls = <<>>
           /\ Sess = pre
           /\ \/ serve = "running" /\ out = <<ERR("invalid command")>>
              \/ serve = "writeerr" /\ out = <<>>

\* RSET before authentication, and USER after it, both rejected.
C6_Witness ==
  /\ pc = "read" /\ serve = "running"
  /\ \/ cmd.name = rsetCmd /\ pre.state = authorizationState
     \/ cmd.name = userCmd /\ pre.state = transactionState /\ pre.toDelete # {}
  /\ out = <<ERR("invalid command")>>
  /\ toDelete = pre.toDelete

\* C7: the session leaves AUTHORIZATION for TRANSACTION only in a step that
\* replies `+OK logged in`: after a PASS or APOP answered with `-ERR` it is
\* still in AUTHORIZATION.
C7_LoginOnlyWithOK ==
  (pc = "read" /\ cmd.name \in {passCmd, apopCmd} /\ pre.state = authorizationState
     /\ out # <<>> /\ out[1].k = "-ERR") =>
    state = authorizationState

\* C8: USER while a name is pending is answered `-ERR user already specified`
\* and keeps the name; PASS with no name pending is answered
\* `-ERR user not specified` without a UserPass call; a PASS the authorizer
\* rejects keeps the name; so UserPass is only ever called with the name of the
\* first USER the session accepted.
C8_UserPassHandshake ==
  /\ (Handled(userCmd) /\ pre.state = authorizationState /\ pre.user # "") =>
       /\ user = pre.user
       /\ out # <<>> => out = <<ERR("user already specified")>>
  /\ (Handled(passCmd) /\ pre.state = authorizationState /\ pre.user = "") =>
       /\ calls = <<>>
       /\ out # <<>> => out = <<ERR("user not specified")>>
  /\ (Handled(passCmd) /\ state = authorizationState) => user = pre.user
  /\ \A i \in DOMAIN calls :
       calls[i].k = "UserPass" => firstUser.set /\ calls[i].t = firstUser.name

\* C9: APOP with other than two arguments is answered `-ERR` without a call of
\* the authorizer; every Authorizer.Apop call carries the banner of the
\* greeting; the session's banner never changes.
C9_ApopBanner ==
  /\ timestampBanner = greeted
  /\ (Handled(apopCmd) /\ pre.state = authorizationState /\ Len(cmd.args) # 2) =>
       /\ calls = <<>>
       /\ out # <<>> => (Len(out) = 1 /\ out[1].k = "-ERR")
  /\ \A i \in DOMAIN calls :
       calls[i].k = "Apop" =>
         /\ calls[i].b = greeted
         /\ Handled(apopCmd) /\ Len(cmd.args) = 2

\* A successful APOP in a session whose banner is the second one.
C9_Witness ==
  /\ Handled(apopCmd) /\ Len(cmd.args) = 2
  /\ greeted = "<7.2@host>"
  /\ HasCall(calls, "Apop") /\ calls[1].b = greeted
  /\ out = <<OK("logged in")>>

MultiLineVerbs == {listCmd, uidlCmd, capaCmd, retrCmd, topCmd}

RepliedErr == Handled(cmd.name) /\ Len(out) = 1 /\ out[1].k = "-ERR"

\* C11: a protocol-level failure is not fatal: no command line makes the
\* session worker crash, and a command other than QUIT that was answered with
\* one `-ERR` line leaves the session in the state it was in, with Serve
\* still running.
C11_FailureIsNotFatal ==
  /\ serve # "panic"
  /\ (RepliedErr /\ cmd.name # quitCmd) =>
       (serve = "running" /\ state = pre.state)

\* C12: QUIT in AUTHORIZATION makes no back-end call and closes the transport,
\* and once its `+OK` sign-off line is written Serve returns nil; any QUIT
\* leaves the session in UPDATE, where Serve has returned, the last command
\* stays the QUIT, and the commit has run at most once.
C12_QuitIsTerminal ==
  /\ (Handled(quitCmd) /\ pre.state = authorizationState) =>
       /\ calls = <<>> /\ deleLog = <<>> /\ closeCount = 0
       /\ sessClosed
       /\ serve \in {"nil", "writeerr"}
       /\ serve = "nil" <=> out = <<OK("server signing off")>>
       /\ serve = "writeerr" <=> out = <<>>
  /\ Handled(quitCmd) => state = updateState
  /\ state = updateState =>
       /\ cmd.name = quitCmd /\ pc = "read"
       /\ serve \in {"nil", "writeerr"}
       /\ closeCount <= 1
       /\ \A i, j \in DOMAIN deleLog : i # j => deleLog[i].n # deleLog[j].n
  /\ closeCount <= 1

\* QUIT sent after a USER, before any login, and answered.
C12_Witness ==
  /\ Handled(quitCmd) /\ pre.state = authorizationState /\ pre.user = "alice"
  /\ state = updateState /\ serve = "nil" /\ sessClosed

\* C13: the idle timeout of a line read is the configured ConnectionTimeout:
\* a session ends with the deadline error only when ConnectionTimeout is
\* positive and the time waited for the line was ConnectionTimeout.
C13_TimeoutIsConfigured ==
  serve = "deadline" => (ConnectionTimeout > 0 /\ readTimeout = ConnectionTimeout)

\* ------------------------------------------------------ claims on the server
\* The worker of connection c is running session.Serve or has not yet
\* deregistered.
Registered(c) == spc[c] \in {"read", "quit", "delete"}
\* Connection c was turned away by Server.Serve: it got a session, no worker,
\* and Serve has gone on.
Rejected(c) ==
  /\ spc[c] = "none"
  /\ connOut[c] # <<>>
  /\ ~\E l \in Listeners : apc[l] = "add" /\ aconn[l] = c

\* C14: the active-session set never holds more than ConnectionsLimit
\* sessions, and a session whose worker is running is in the set.
C14_SessionLimit ==
  /\ Cardinality(sessions) <= ConnectionsLimit
  /\ \A c \in Conns : Registered(c) => c \in sessions
  /\ \A c \in sessions : spc[c] # "none"

\* The set is full, and a further connection has been turned away.
C14_Witness ==
  /\ Cardinality(sessions) = ConnectionsLimit
  /\ \E c \in Conns : Rejected(c)

\* C15: a connection accepted while the set is at the cap is sent
\* `-ERR too many connections` and closed; it gets no worker and is not in
\* the set.
C15_RejectedOverLimit ==
  \A c \in Conns :
    Rejected(c) =>
      /\ connOut[c][Len(connOut[c])] = ERR(ErrTooManyConnections)
      /\ connClosed[c]
      /\ c \notin sessions

\* The call of caller k is a Shutdown that has returned.
ShutdownReturned(k) == cop[k] = "Shutdown" /\ cpc[k] = "done"

\* C16: a Shutdown that returns the deadline error has left no session of the
\* active set with an open transport; one that returns after the drained
\* signal returns the error of closing the listeners.
C16_DeadlineForcesClose ==
  \A k \in Callers :
    ShutdownReturned(k) =>
      /\ cret[k] = ErrDeadline => leftOpen[k] = {}
      /\ cret[k] # ErrDeadline => cret[k] = lnerr[k]

\* C17: under fair scheduling, with workers that return and a deadline that
\* need not expire, a Shutdown that does the shutdown work returns.
C17_ShutdownReturns ==
  \A k \in Callers : (cop[k] = "Shutdown") ~> (cpc[k] = "done")

\* C18: of all Shutdown and Close calls one does the shutdown work; every
\* other one returns ErrServerClosed and closes neither a listener nor a
\* session.
C18_OneShot ==
  /\ Cardinality({k \in Callers : cop[k] # ""}) <= 1
  /\ (\E k \in Callers : cpc[k] # "idle") =>
       (inShutdown /\ \E k \in Callers : cop[k] # "")
  /\ \A k \in Callers :
       cop[k] = "" =>
         /\ work[k] = {}
         /\ cpc[k] \in {"idle", "done"}
         /\ cpc[k] = "done" => cret[k] = ErrServerClosed

\* Both callers have returned: one closed a listener and a session, the other
\* got ErrServerClosed.
C18_Witness ==
  \E k, j \in Callers :
    /\ cpc[k] = "done" /\ cop[k] # ""
    /\ \E l \in Listeners, c \in Conns :
         {<<"listener", l>>, <<"session", c>>} \subseteq work[k]
    /\ cpc[j] = "done" /\ cop[j] = "" /\ cret[j] = ErrServerClosed

\* The call of caller k has finished waiting for the accept workers.
Waited(k) == cop[k] # "" /\ cpc[k] \in {"empty", "select", "force", "done"}

\* C19: once the shutdown flag is set, a Serve that decides its return value
\* returns ErrServerClosed, a Serve that starts does not register its
\* listener, no wrapped Listener is closed twice and that of a returned Serve
\* or of a listener closed by Shutdown/Close is closed once, and after the
\* wait for the accept workers no session is added to the active set.
C19_Step ==
  /\ \A l \in Listeners :
       (inShutdown /\ sret'[l] # sret[l]) => sret'[l] = ErrServerClosed
  /\ \A l \in Listeners :
       (inShutdown /\ apc[l] = "idle" /\ apc'[l] # "idle") =>
         (apc'[l] = "done" /\ listeners' = listeners)
  /\ (\E k \in Callers : Waited(k)) => sessions' \subseteq sessions
C19_State ==
  /\ \A l \in Listeners :
       /\ lnClosed[l] <= 1
       /\ apc[l] = "done" => lnClosed[l] = 1
       /\ (\E k \in Callers : <<"listener", l>> \in work[k]) => lnClosed[l] = 1
  /\ (\E k \in Callers : Waited(k)) =>
       (listeners = {} /\ \A l \in Listeners : apc[l] \in {"idle", "done"} \/
                                               lnClosed[l] = 1)
C19_AfterShutdown == [][C19_Step]_vars /\ []C19_State

\* After the shutdown a running Serve and one started later have both
\* returned ErrServerClosed, each listener closed once.
C19_Witness ==
  /\ \E k \in Callers : cpc[k] = "done" /\ cop[k] # ""
  /\ \E l, m \in Listeners :
       /\ l # m
       /\ <<"listener", l>> \in UNION {work[k] : k \in Callers}
       /\ <<"listener", m>> \notin UNION {work[k] : k \in Callers}
       /\ apc[l] = "done" /\ apc[m] = "done"
       /\ sret[l] = ErrServerClosed /\ sret[m] = ErrServerClosed
       /\ lnClosed[l] = 1 /\ lnClosed[m] = 1

\* The call of caller k is a Close that has returned.
CloseReturned(k) == cop[k] = "Close" /\ cpc[k] = "done"

\* C20: a Close that has returned has closed the transport of every session
\* in the active set; no worker whose transport the server closed calls Dele;
\* no worker crashes; and the active set becomes empty.
C20_CloseEndsSessions ==
  /\ [](\A k \in Callers : CloseReturned(k) => \A c \in sessions : forced[c])
  /\ [](\A c \in Conns : ~deleForced[c])
  /\ []((\E k \in Callers : cop[k] = "Close") => ~panicked)
  /\ ((\E k \in Callers : CloseReturned(k)) ~> (sessions = {}))

\* ------------------------------------------- claims on the responses
\* The last command asks for a multi-line response.
IsMultiLine ==
  \/ cmd.name \in {capaCmd, retrCmd}
  \/ cmd.name = topCmd /\ twoNumArgs(cmd)
  \/ cmd.name \in {listCmd, uidlCmd} /\ ~oneNumArg(cmd)
\* The last step wrote all of a response that begins with `+OK`.
Complete == pc = "read" /\ serve = "running" /\ out # <<>> /\ out[1].k = "+OK"

\* C21: a complete multi-line response ends with the line `.`, holds no other
\* line `.`, and every line of the message that begins with a dot is sent
\* with one more. (The stored lines begin with one dot at most, so a line sent
\* with exactly one leading dot is a line that was not stuffed.)
C21_DotStuffing ==
  (Complete /\ IsMultiLine /\ cmd.name \in Verbs) =>
    /\ out[Len(out)].k = "."
    /\ \A i \in 1 .. Len(out) - 1 : out[i].k # "."
    /\ \A i \in DOMAIN out : out[i].k = "body" => out[i].n # 1

Min(a, b) == IF a < b THEN a ELSE b
\* The number of lines up to and including the separator that ends the
\* headers; all of them when there is none.
SeparatorAt(lines) ==
  IF \E i \in DOMAIN lines : lines[i] = MsgLine("", 0)
    THEN CHOOSE i \in DOMAIN lines :
           /\ lines[i] = MsgLine("", 0)
           /\ \A j \in 1 .. i - 1 : lines[j] # MsgLine("", 0)
    ELSE Len(lines)
\* What TOP with line budget L is to send of a message.
TopLines(lines, L) == SubSeq(lines, 1, Min(Len(lines), SeparatorAt(lines) + L))

\* The last command is TOP n L, n the number of a message not marked deleted,
\* L >= 0.
TopOfMessage ==
  /\ Handled(topCmd) /\ pre.state = transactionState
  /\ Len(cmd.args) = 2 /\ cmd.args[1].num /\ cmd.args[2].num
  /\ cmd.args[1].n \in 1 .. nMsgs
  /\ (cmd.args[1].n - 1) \notin pre.toDelete
  /\ cmd.args[2].n >= 0

\* C22: TOP n L on an existing, undeleted message n, L >= 0, is accepted: it
\* asks the mailbox for message n-1, and a complete response is the status
\* line, the headers, the separator and the first min(L, body lines) lines of
\* the body (each as stored or dot-stuffed), then `.`.
C22_TopLines ==
  TopOfMessage =>
    /\ calls # <<>> /\ calls[1].k = "Message" /\ calls[1].n = cmd.args[1].n - 1
    /\ (serve = "running" /\ calls[1].v = 0) =>
         LET exp == TopLines(MessageLines(cmd.args[1].n - 1), cmd.args[2].n) IN
         /\ Len(out) = Len(exp) + 2
         /\ out[1] = OK("message body")
         /\ out[Len(out)].k = "."
         /\ \A i \in DOMAIN exp :
              /\ out[i + 1].k = "body"
              /\ out[i + 1].t = exp[i].t
              /\ out[i + 1].n \in {exp[i].dots, exp[i].dots + 1}

\* TOP 1 0 answered with the header, the separator and the terminator, and a
\* TOP whose budget is larger than the body.
C22_Witness ==
  /\ TopOfMessage /\ serve = "running" /\ calls[1].v = 0
  /\ \/ cmd.args[2].n = 0 /\ Len(out) = 4
     \/ cmd.args[2].n = 5 /\ cmd.args[1].n = 1 /\ Len(out) = 6

\* C23: LIST n, UIDL n and RETR n call the mailbox with index n-1, so that
\* different numbers reach different messages, and for n the number of a
\* message the status line `+OK` echoes n.
C23_WireToIndex ==
  (pc = "read" /\ cmd.name \in {listCmd, uidlCmd, retrCmd}
     /\ pre.state = transactionState /\ Len(cmd.args) = 1 /\ cmd.args[1].num) =>
    /\ \A i \in DOMAIN calls :
         calls[i].k \in {"ListOne", "UidlOne", "Message"} =>
           calls[i].n = cmd.args[1].n - 1
    /\ (Complete /\ cmd.args[1].n \in 1 .. pre.msgCount) => out[1].n = cmd.args[1].n

\* C24: a LIST or UIDL without a number that succeeds writes as many data
\* lines as the mailbox returned entries (one per message), the i-th of them
\* (from 0) with the number i+1 and the i-th size or id, between the status
\* line and `.`.
C24_ListLines ==
  (Handled(cmd.name) /\ cmd.name \in {listCmd, uidlCmd} /\ ~oneNumArg(cmd)
     /\ pre.state = transactionState /\ serve = "running"
     /\ calls # <<>> /\ calls[1].v = 0) =>
    /\ Len(out) = nMsgs + 2
    /\ out[1].k = "+OK"
    /\ out[Len(out)].k = "."
    /\ \A i \in 0 .. nMsgs - 1 :
         /\ out[i + 2].k = "data"
         /\ out[i + 2].n = i + 1
         /\ out[i + 2].v = (IF cmd.name = listCmd THEN SizeOf(i) ELSE UidOf(i))

\* A LIST and a UIDL of all the messages of a mailbox that holds several.
C24_Witness ==
  /\ Handled(cmd.name) /\ cmd.name \in {listCmd, uidlCmd} /\ Len(cmd.args) = 0
  /\ serve = "running" /\ nMsgs >= 2 /\ Len(out) = nMsgs + 2
  /\ out[3].n = 2

\* ------------------------------------------- claims on the deletion set
C26_Step ==
  toDelete' # toDelete => (pc = "handle" /\ cmd.name \in {deleCmd, rsetCmd})
C26_State ==
  /\ Handled(rsetCmd) => toDelete = {}
  /\ Handled(quitCmd) => IndexesOf(deleLog) \subseteq pre.toDelete

\* C26: after RSET no index is marked deleted, whatever DELE commands came
\* before; only the handlers of DELE and RSET change the deletion set, and the
\* commit of QUIT calls Dele for indexes of the deletion set only. So DELEs,
\* then RSET, then QUIT with no DELE in between gives a commit without a Dele
\* call.
C26_RsetEmpties == [][C26_Step]_vars /\ []C26_State

\* An RSET that emptied a deletion set that was not empty, and a QUIT that
\* committed an empty set.
C26_Witness ==
  \/ Handled(rsetCmd) /\ pre.toDelete # {} /\ toDelete = {}
  \/ Handled(quitCmd) /\ pre.state = transactionState /\ pre.toDelete = {}
       /\ deleLog = <<>> /\ closeCount = 1

\* C28: in the commit of QUIT a Dele call that fails is the last Dele call,
\* and Mailbox.Close is called exactly once, after the Dele calls, whether or
\* not one of them failed.
C28_CommitStopsAtFailure ==
  (Handled(quitCmd) /\ pre.mailbox) =>
    /\ \A i \in DOMAIN calls :
         (calls[i].k = "Dele" /\ calls[i].v = 1) =>
           \A j \in DOMAIN calls : j > i => calls[j].k # "Dele"
    /\ Cardinality({i \in DOMAIN calls : calls[i].k = "Close"}) = 1
    /\ \A i \in DOMAIN calls : calls[i].k = "Close" => i = Len(calls)

\* A commit of several marked messages whose first Dele fails: no other Dele
\* follows, and the mailbox is closed.
C28_Witness ==
  /\ Handled(quitCmd) /\ pre.mailbox
  /\ Cardinality(pre.toDelete) >= 2
  /\ Len(calls) = 2
  /\ calls[1].k = "Dele" /\ calls[1].v = 1
  /\ calls[2].k = "Close"

\* C29: a command whose index is in the deletion set is answered with one
\* status line, a `-ERR`, and neither ListOne, UidlOne nor Message is called.
C29_DeletedIsNotLookedUp ==
  (pc = "read" /\ HasIndex /\ pre.state = transactionState
     /\ Index \in pre.toDelete) =>
    /\ \A i \in DOMAIN calls : calls[i].k \notin {"ListOne", "UidlOne", "Message"}
    /\ Cardinality({i \in DOMAIN out : out[i].k \in {"+OK", "-ERR"}}) <= 1
    /\ out # <<>> => out[1].k = "-ERR"

\* C30: the deletion set holds indexes i with 0 <= i < msgCount only, and so
\* do the Dele calls of the commit.
C30_DeletionSetInRange ==
  /\ \A i \in toDelete : 0 <= i /\ i < msgCount
  /\ \A i \in DOMAIN deleLog : 0 <= deleLog[i].n /\ deleLog[i].n < msgCount

\* ------------------------------------------- claims on the capabilities
HasData(t) == \E i \in DOMAIN out : out[i].k = "data" /\ out[i].t = t

\* C25: the greeting carries the banner unless the authorizer does not support
\* APOP, and then it carries none; a complete CAPA response lists TOP and UIDL,
\* and USER unless the authorizer does not support USER/PASS.
C25_CapabilitiesFollowAuthorizer ==
  /\ greeted = (IF authorizer = DisableApop THEN "" ELSE timestampBanner)
  /\ (Handled(capaCmd) /\ Complete) =>
       /\ HasData("USER") <=> authorizer # DisableUserPass
       /\ HasData("TOP")
       /\ HasData("UIDL")

\* ------------------------------------------- claims on the greeting
\* NewSession has returned for connection c: Server.Serve is about to add
\* the session, or it has started its worker or turned it away.
Greeted(c) ==
  \/ \E l \in Listeners : apc[l] = "add" /\ aconn[l] = c
  \/ spc[c] # "none"
  \/ connOut[c] # <<>>
\* The greeting is the first line written on connection c.
GreetingFirst(c) == connOut[c] # <<>> /\ connOut[c][1].t = "POP3 server ready"

\* C27: the greeting is the first line written on a connection and is written
\* once; a connection whose greeting could not be written is closed, its
\* session is not in the active set and no worker reads commands from it.
C27_GreetingOrClosed ==
  \A c \in Conns :
    Greeted(c) =>
      /\ Cardinality({i \in DOMAIN connOut[c] :
                        connOut[c][i].t = "POP3 server ready"}) <= 1
      /\ \A i \in DOMAIN connOut[c] :
           connOut[c][i].t = "POP3 server ready" => i = 1
      /\ ~GreetingFirst(c) => (connClosed[c] /\ c \notin sessions /\ spc[c] = "none")

\* ------------------------------------------- claims on the session fields
\* C31 as stated: the session holds a mailbox if and only if its state is
\* TRANSACTION or UPDATE.
C31_MailboxIffState ==
  mailbox <=> state \in {transactionState, updateState}

\* C31: a session that holds a mailbox is in TRANSACTION or UPDATE, a session
\* in TRANSACTION holds a mailbox, also when the reply to the login was
\* `-ERR`, and a session in UPDATE holds one if and only if QUIT was received
\* in TRANSACTION.
C31_MailboxFollowsState ==
  /\ mailbox => state \in {transactionState, updateState}
  /\ state = transactionState => mailbox
  /\ state = updateState =>
       /\ cmd.name = quitCmd
       /\ mailbox <=> pre.state = transactionState

\* UPDATE reached by QUIT from AUTHORIZATION, without a mailbox; and a login
\* answered `-ERR` that left the session in TRANSACTION with its mailbox.
C31_Witness ==
  \/ Handled(quitCmd) /\ pre.state = authorizationState
       /\ state = updateState /\ ~mailbox
  \/ Handled(cmd.name) /\ cmd.name \in {passCmd, apopCmd}
       /\ out # <<>> /\ out[1].k = "-ERR" /\ HasCall(calls, "Stat")
       /\ state = transactionState /\ mailbox

\* ------------------------------------------- claims on the parser
\* C32: the integer companion of an argument is its value minus one when the
\* argument is a positive number and the sentinel -1 otherwise, for the first
\* and for the second argument; so no handler calls the mailbox with a
\* negative index.
C32_IntegerCompanion ==
  /\ \A i \in DOMAIN cmd.args :
       cmd.numArgs[i] =
         (IF cmd.args[i].num /\ cmd.args[i].n > 0 THEN cmd.args[i].n - 1 ELSE -1)
  /\ \A i \in DOMAIN calls :
       calls[i].k \in {"ListOne", "UidlOne", "Message", "Dele"} => calls[i].n >= 0

\* ------------------------------------------- claims on copyHeadersAndBody
\* The input lines up to and including the first empty one, and those after;
\* all of them and none when no line is empty.
IsEmptyLine(l) == l.t = "" /\ l.dots = 0
HasSeparator(input) == \E i \in DOMAIN input : IsEmptyLine(input[i])
FirstEmpty(input) ==
  CHOOSE i \in DOMAIN input :
    IsEmptyLine(input[i]) /\ \A j \in 1 .. i - 1 : ~IsEmptyLine(input[j])
HeaderPart(input) ==
  IF HasSeparator(input) THEN SubSeq(input, 1, FirstEmpty(input)) ELSE input
BodyPart(input) ==
  IF HasSeparator(input)
    THEN SubSeq(input, FirstEmpty(input) + 1, Len(input))
    ELSE <<>>

\* C33: copyHeadersAndBody writes the lines up to and including the first
\* empty line and the first min(N, remaining) lines after it, each ended by
\* CRLF whatever its ending in the input was; all lines and no separator when
\* no line is empty; nothing for an empty input.
C33_CopyHeadersAndBody ==
  copyDone =>
    LET exp == HeaderPart(copyIn)
                 \o SubSeq(BodyPart(copyIn), 1, Min(copyLimit, Len(BodyPart(copyIn))))
    IN /\ Len(copyOut) = Len(exp)
       /\ \A i \in DOMAIN exp :
            copyOut[i] = InputLine(exp[i].t, exp[i].dots, crlf)
       /\ ~HasSeparator(copyIn) => Len(copyOut) = Len(copyIn)
       /\ copyIn = <<>> => copyOut = <<>>

\* A call that cut the body short of an input with LF endings, a line that is
\* a single dot among the headers and a second empty line in the body.
C33_Witness ==
  /\ copyDone /\ copyLimit = 1
  /\ Len(copyIn) = 4 /\ Len(copyOut) = 3
  /\ copyIn[1] = InputLine("", 1, lf)
  /\ copyIn[2] = InputLine("", 0, lf)
  /\ copyIn[3] = InputLine("", 0, crlf)

\* ------------------------------------------- claims on the idle timeout
\* C34: once the idle timeout has ended a session, its transport is closed
\* and no read of the session is pending on it or completes later.
C34_NoReadAfterTimeout ==
  serve = "deadline" => (sessClosed \/ peerClosed) /\ reader = "none"

\* ------------------------------------------- claims on the drained signal
C35_Step ==
  sessionsDone' # sessionsDone => (inShutdown /\ sessions = {})

\* C35: the drained signal is fired at most once (a second close of
\* sessionsDone panics), and only when the shutdown flag is set and the
\* active-session set is empty.
C35_DrainedOneShot == [][C35_Step]_vars /\ []~panicked

\* ------------------------------------------- claims on what commands change
ReadOnlyVerbs == {statCmd, listCmd, uidlCmd, retrCmd, topCmd, noopCmd, capaCmd}

\* C36: STAT, LIST, UIDL, RETR, TOP, NOOP and CAPA leave the state, the
\* pending user, msgCount and the deletion set as they were, whatever the
\* reply; msgCount is assigned by PASS and APOP only and the deletion set is
\* changed by DELE and RSET only.
C36_ReadOnlyCommands ==
  /\ cmd.name \in ReadOnlyVerbs =>
       /\ state = pre.state
       /\ user = pre.user
       /\ msgCount = pre.msgCount
       /\ toDelete = pre.toDelete
  /\ msgCount # pre.msgCount => (pc = "read" /\ cmd.name \in {passCmd, apopCmd})
  /\ toDelete # pre.toDelete => (pc = "read" /\ cmd.name \in {deleCmd, rsetCmd})

\* A STAT answered `-ERR` in a session that has messages and a deletion set,
\* and a LIST answered `+OK`.
C36_Witness ==
  /\ Handled(cmd.name) /\ pre.state = transactionState
  /\ msgCount > 0 /\ toDelete # {}
  /\ \/ cmd.name = statCmd /\ out # <<>> /\ out[1].k = "-ERR"
     \/ cmd.name = listCmd /\ out # <<>> /\ out[1].k = "+OK"

\* ------------------------------------------- claims on back-end failures
\* C37: a request in TRANSACTION whose mailbox call fails is answered with
\* one line, the `-ERR` status line: no data line and no terminator follow.
C37_ErrorIsOneLine ==
  (pc = "read" /\ pre.state = transactionState /\ serve = "running"
     /\ cmd.name \in {listCmd, uidlCmd, retrCmd, topCmd, statCmd}
     /\ \E i \in DOMAIN calls : calls[i].v = 1) =>
    /\ Len(out) = 1
    /\ out[1].k = "-ERR"

\* C38: a RETR or TOP that got a reader from Mailbox.Message has closed it
\* once when the handler has returned, whether the copy succeeded, reading
\* the message failed or a Write failed.
C38_ReaderClosedOnce ==
  (pc = "read" /\ cmd.name \in {retrCmd, topCmd}
     /\ \E i \in DOMAIN calls :
          calls[i].k = "Message" /\ calls[i].v = 0 /\ calls[i].n \in 0 .. nMsgs - 1) =>
    Cardinality({i \in DOMAIN calls : calls[i].k = "ReaderClose"}) = 1

\* ------------------------------------------- claims on the mailbox
\* A step in which MailboxProvider.Provide returns a mailbox.
Provides ==
  /\ pc = "handle" /\ pc' = "read"
  /\ \E i \in DOMAIN calls' : calls'[i].k = "Provide" /\ calls'[i].v = 0
C39_Step ==
  /\ Provides => (~mailbox /\ mailbox')
  /\ mailbox => mailbox'
  /\ closeCount' # closeCount =>
       (pc = "handle" /\ cmd.name = quitCmd /\ state = transactionState)
C39_State ==
  /\ closeCount <= 1
  /\ (Ended /\ cmd.name # quitCmd) => closeCount = 0

\* C39: Provide returns a mailbox to a session that has none, which then
\* keeps it, so at most once per session; Mailbox.Close is called at most
\* once, in the step that handles QUIT in TRANSACTION, and never by a session
\* that ends by EOF, a transport error, the timeout or a forced close.
C39_ProvideAndCloseOnce == [][C39_Step]_vars /\ []C39_State

\* A session that logged in and ended without QUIT: its mailbox is not
\* closed.
C39_Witness ==
  /\ mailbox /\ closeCount = 0
  /\ serve \in {"EOF", "readerr", "writeerr", "deadline"}
  /\ cmd.name # quitCmd

\* ------------------------------------------- claims on the connections
\* The session of connection c is over: its worker has left session.Serve, or
\* Server.Serve has turned the connection away.
SessionOver(c) == spc[c] \in {"delete", "check", "signal", "done"} \/ Rejected(c)

\* C40: a connection whose session is over has its transport closed in the
\* end, however the session ended.
C40_EventuallyClosed ==
  \A c \in Conns : SessionOver(c) ~> connClosed[c]
====
